---- MODULE Spec2Model ----
(***************************************************************************)
(* Model of robots/commenter/main.go: the query builder (makeQuery), the   *)
(* URL parser (parseHTMLURL), the comment producer (makeCommenter) and the *)
(* batch runner (run).                                                     *)
(*                                                                         *)
(* Go strings are modelled as sequences of one-character strings, so that  *)
(* strings.Contains, strings.ReplaceAll, strings.Join and the regular      *)
(* expression of parseHTMLURL are computed on characters.                  *)
(***************************************************************************)
EXTENDS Integers, Sequences, FiniteSets, TLC

VARIABLES
    \* ---- run ----
    pc,          \* position in run: "search", "shuffle", "loop", "done"
    searchErr,   \* FindIssuesWithOrg returned an error
    found,       \* the list FindIssuesWithOrg returned, as returned
    issues,      \* the local slice `issues` (shuffled in place)
    si,          \* rand.Shuffle's loop index i
    n,           \* the range loop's index n
    problems,    \* the local slice `problems`
    visited,     \* items for which the loop body ran (log line "Matched")
    rendered,    \* invocations of commenter and their outcome, in order
    calls,       \* invocations of c.CreateComment and their outcome, in order
    ret,         \* value returned by run
    ceiling,     \* parameter ceiling
    random,      \* parameter random
    useTemplate, \* makeCommenter's useTemplate
    \* ---- makeQuery ----
    qpc,             \* "call" before makeQuery ran, "ret" after, else "idle"
    query,           \* parameter query (raw)
    includeArchived, \* parameter includeArchived
    includeClosed,   \* parameter includeClosed
    includeLocked,   \* parameter includeLocked
    minUpdated,      \* parameter minUpdated, in ticks
    now,             \* what time.Now() returns, in ticks
    qres             \* makeQuery's result: [q |-> string, err |-> string]

vars == <<pc, searchErr, found, issues, si, n, problems, visited, rendered, calls, ret,
          ceiling, random, useTemplate,
          qpc, query, includeArchived, includeClosed, includeLocked,
          minUpdated, now, qres>>

runVars == <<pc, searchErr, found, issues, si, n, problems, visited, rendered, calls, ret,
             ceiling, random, useTemplate>>

queryVars == <<qpc, query, includeArchived, includeClosed, includeLocked,
               minUpdated, now, qres>>

\* ------------------------------------------------------------------------
\* Bounds
\* ------------------------------------------------------------------------
MaxIssues == 3     \* longest search result
MaxCeiling == 2    \* largest --ceiling
MaxPieces == 2     \* raw queries are built from at most this many pieces
MaxNow == 2        \* clock readings span this many ticks
MaxUpdated == 3    \* longest --updated, in ticks
TicksPerSecond == 2 \* clock resolution: ticks in one second

\* ------------------------------------------------------------------------
\* Strings
\* ------------------------------------------------------------------------
Max(S) == CHOOSE x \in S : \A y \in S : y <= x

\* strings.Contains(s, sub)
Contains(s, sub) ==
    \E i \in 0..(Len(s) - Len(sub)) : SubSeq(s, i + 1, i + Len(sub)) = sub

\* strings.ReplaceAll(s, "\n", " ")
ReplaceNewlines(s) == [i \in 1..Len(s) |-> IF s[i] = "\n" THEN " " ELSE s[i]]

RECURSIVE Join(_)
\* strings.Join(parts, " ")
Join(parts) ==
    IF Len(parts) = 0 THEN <<>>
    ELSE IF Len(parts) = 1 THEN parts[1]
    ELSE parts[1] \o <<" ">> \o Join(Tail(parts))

RECURSIVE Concat(_)
Concat(parts) ==
    IF Len(parts) = 0 THEN <<>> ELSE parts[1] \o Concat(Tail(parts))

\* number of (possibly overlapping) occurrences of sub in s
Occurrences(s, sub) ==
    Cardinality({i \in 0..(Len(s) - Len(sub)) : SubSeq(s, i + 1, i + Len(sub)) = sub})

Digits == <<"0", "1", "2", "3", "4", "5", "6", "7", "8", "9">>
IsDigit(c) == \E d \in 1..10 : Digits[d] = c
DigitVal(c) == (CHOOSE d \in 1..10 : Digits[d] = c) - 1

\* ------------------------------------------------------------------------
\* parseHTMLURL
\* ------------------------------------------------------------------------
Issues == <<"i", "s", "s", "u", "e", "s">>
Pull == <<"p", "u", "l", "l">>

\* decimal digits of math.MaxInt64 = 9223372036854775807
MaxInt64Digits == <<9, 2, 2, 3, 3, 7, 2, 0, 3, 6, 8, 5, 4, 7, 7, 5, 8, 0, 7>>

RECURSIVE StripZeros(_)
StripZeros(d) ==
    IF Len(d) > 1 /\ d[1] = "0" THEN StripZeros(Tail(d)) ELSE d

\* d, a 19-digit string, is greater than math.MaxInt64
Above64(d) ==
    \E i \in 1..19 :
        /\ \A j \in 1..(i - 1) : DigitVal(d[j]) = MaxInt64Digits[j]
        /\ DigitVal(d[i]) > MaxInt64Digits[i]

\* strconv.Atoi fails with a range error when the value does not fit an int
AtoiFails(d) ==
    LET s == StripZeros(d)
    IN  Len(s) > 19 \/ (Len(s) = 19 /\ Above64(s))

RECURSIVE AtoiVal(_)
AtoiVal(d) ==
    IF Len(d) = 0 THEN 0
    ELSE 10 * AtoiVal(SubSeq(d, 1, Len(d) - 1)) + DigitVal(d[Len(d)])

Slashes(s) == {i \in 1..Len(s) : s[i] = "/"}

ParseFailure == [org |-> <<>>, repo |-> <<>>, number |-> 0, err |-> TRUE]

\* re.FindStringSubmatch for `.+/(.+)/(.+)/(issues|pull)/(\d+)$`, then Atoi.
\* The url splits as  X "/" Y "/" Z "/" K "/" D : D the digits after the last
\* slash, K the segment before it, and X, Y, Z non-empty with X, then Y, as
\* long as possible (greedy quantifiers, leftmost-first match).
parseHTMLURL(url) ==
    LET sl == Slashes(url)
    IN  IF Cardinality(sl) < 4 THEN ParseFailure
        ELSE
        LET l4 == Max(sl)
            l3 == Max(sl \ {l4})
            D  == SubSeq(url, l4 + 1, Len(url))
            K  == SubSeq(url, l3 + 1, l4 - 1)
            P  == SubSeq(url, 1, l3 - 1)
            pq == {c \in Slashes(P) \X Slashes(P) :
                      c[1] > 1 /\ c[2] > c[1] + 1 /\ c[2] < Len(P)}
        IN  IF \/ Len(D) = 0
               \/ \E i \in 1..Len(D) : ~IsDigit(D[i])
               \/ K \notin {Issues, Pull}
               \/ pq = {}
            THEN ParseFailure
            ELSE
            LET p == Max({c[1] : c \in pq})
                q == Max({c[2] : c \in {e \in pq : e[1] = p}})
            IN  IF AtoiFails(D) THEN ParseFailure
                ELSE [org |-> SubSeq(P, p + 1, q - 1),
                      repo |-> SubSeq(P, q + 1, Len(P)),
                      number |-> AtoiVal(StripZeros(D)),
                      err |-> FALSE]

\* ------------------------------------------------------------------------
\* Inputs of run
\* ------------------------------------------------------------------------
Host == <<"h", "/", "o", "/", "r", "/">>
Nines == <<"9", "9", "9", "9", "9", "9", "9", "9", "9", "9">>

UrlPull == Host \o Pull \o <<"/", "0", "7">>            \* h/o/r/pull/07
UrlNoNumber == Host \o Issues \o <<"/">>                \* numeric suffix missing
UrlHuge == Host \o Issues \o <<"/">> \o Nines \o Nines  \* number overflows int

Urls == {UrlPull, UrlNoNumber, UrlHuge}

Ceilings == (-1)..MaxCeiling

\* github.Issue: the fields run reads, with the tracker's identity of the issue
Results ==
    UNION {[1..m -> Urls] : m \in 0..MaxIssues}

IssueList(urls) == [k \in 1..Len(urls) |-> [id |-> k, HTMLURL |-> urls[k]]]

CommentText == <<"h", "i">>

NoReturn == [kind |-> "running", count |-> 0]

\* ------------------------------------------------------------------------
\* makeCommenter
\* ------------------------------------------------------------------------
\* The template modelled is {{.Org}}/{{.Repo}}; text/template's Execute fails
\* or not (fails) for reasons of the template and the issue's fields.
makeCommenter(comment, tmpl, m, fails) ==
    IF ~tmpl THEN [text |-> comment, err |-> FALSE]
    ELSE [text |-> m.Org \o <<"/">> \o m.Repo, err |-> fails]

\* ------------------------------------------------------------------------
\* run
\* ------------------------------------------------------------------------
\* issues[i], issues[j] = issues[j], issues[i]   (Go indices, from 0)
SwapLossy(s, i, j) == [s EXCEPT ![i + 1] = s[j + 1]]

Swap(s, i, j) == [s EXCEPT ![i + 1] = s[j + 1], ![j + 1] = s[i + 1]]

\* if ceiling > 0 && n == ceiling
AtCeilingLate(c, k) == c > 0 /\ k = c + 1

AtCeiling(c, k) == c > 0 /\ k = c

Failures(probs) == [kind |-> "failures", count |-> Len(probs)]

\* if len(problems) > 0 { return fmt.Errorf(...) }; return nil
AggregateLenient(probs) ==
    IF Len(probs) > 1 THEN Failures(probs) ELSE [kind |-> "nil", count |-> 0]

Aggregate(probs) ==
    IF Len(probs) > 0 THEN Failures(probs) ELSE [kind |-> "nil", count |-> 0]

Problem(kind, i) == [kind |-> kind, item |-> i.id]

\* One pass of the loop body for issue i. commentFails and applyFails are what
\* the commenter and c.CreateComment answer when they are invoked.
\* A parse failure records its message and falls through to the commenter.
Body(i, commentFails, applyFails) ==
    LET p == parseHTMLURL(i.HTMLURL)
        m == [Number |-> p.number, Org |-> p.org, Repo |-> p.repo, Issue |-> i]
        c == makeCommenter(CommentText, useTemplate, m, commentFails)
        parseMsgs == IF p.err THEN <<Problem("parse", i)>> ELSE <<>>
        call == [org |-> p.org, repo |-> p.repo, number |-> p.number,
                 comment |-> c.text, item |-> i.id, err |-> applyFails]
        render == [item |-> i.id, err |-> c.err]
    IN  IF c.err
        THEN [msgs |-> parseMsgs \o <<Problem("comment", i)>>,
              rendered |-> <<render>>, calls |-> <<>>]
        ELSE IF applyFails
        THEN [msgs |-> parseMsgs \o <<Problem("apply", i)>>,
              rendered |-> <<render>>, calls |-> <<call>>]
        ELSE [msgs |-> parseMsgs, rendered |-> <<render>>, calls |-> <<call>>]

\* issues, err := c.FindIssuesWithOrg(...); err != nil
SearchFailsIgnored ==
    /\ pc = "search"
    /\ searchErr' = TRUE
    /\ \E urls \in Results :
          /\ found' = IssueList(urls)
          /\ issues' = IssueList(urls)
    /\ problems' = <<>>
    /\ n' = 0
    /\ pc' = "loop"
    /\ UNCHANGED <<si, visited, rendered, calls, ret, ceiling, random,
                   useTemplate>>
    /\ UNCHANGED queryVars

SearchFails ==
    /\ pc = "search"
    /\ searchErr' = TRUE
    /\ ret' = [kind |-> "search", count |-> 0]
    /\ pc' = "done"
    /\ UNCHANGED <<found, issues, si, n, problems, visited, rendered, calls,
                   ceiling, random, useTemplate>>
    /\ UNCHANGED queryVars

\* issues, err := c.FindIssuesWithOrg(...); err == nil
SearchSucceeds ==
    /\ pc = "search"
    /\ \E urls \in Results :
          /\ found' = IssueList(urls)
          /\ issues' = IssueList(urls)
          /\ si' = IF random THEN Len(urls) - 1 ELSE 0
    /\ problems' = <<>>
    /\ n' = 0
    /\ pc' = IF random THEN "shuffle" ELSE "loop"
    /\ UNCHANGED <<searchErr, visited, rendered, calls, ret, ceiling, random,
                   useTemplate>>
    /\ UNCHANGED queryVars

\* rand.Shuffle: for i := n - 1; i > 0; i-- { j := rand(i + 1); swap(i, j) }
ShuffleStep ==
    /\ pc = "shuffle"
    /\ si > 0
    /\ \E j \in 0..si : issues' = Swap(issues, si, j)
    /\ si' = si - 1
    /\ UNCHANGED <<pc, searchErr, found, n, problems, visited, rendered, calls, ret,
                   ceiling, random, useTemplate>>
    /\ UNCHANGED queryVars

ShuffleDone ==
    /\ pc = "shuffle"
    /\ si <= 0
    /\ pc' = "loop"
    /\ UNCHANGED <<searchErr, found, issues, si, n, problems, visited, rendered, calls,
                   ret, ceiling, random, useTemplate>>
    /\ UNCHANGED queryVars

\* the loop body, for issues[n]
VisitAborting ==
    /\ pc = "loop"
    /\ n < Len(issues)
    /\ ~AtCeiling(ceiling, n)
    /\ \E commentFails \in BOOLEAN, applyFails \in BOOLEAN :
          LET i == issues[n + 1]
              b == Body(i, commentFails, applyFails)
          IN  /\ visited' = Append(visited, i.id)
              /\ rendered' = rendered \o b.rendered
              /\ problems' = problems \o b.msgs
              /\ calls' = calls \o b.calls
              /\ pc' = IF b.msgs # <<>> THEN "done" ELSE pc
              /\ ret' = IF b.msgs # <<>> THEN Aggregate(problems') ELSE ret
    /\ n' = n + 1
    /\ UNCHANGED <<searchErr, found, issues, si, ceiling, random, useTemplate>>
    /\ UNCHANGED queryVars

Visit ==
    /\ pc = "loop"
    /\ n < Len(issues)
    /\ ~AtCeiling(ceiling, n)
    /\ \E commentFails \in BOOLEAN, applyFails \in BOOLEAN :
          LET i == issues[n + 1]
              b == Body(i, commentFails, applyFails)
          IN  /\ visited' = Append(visited, i.id)
              /\ rendered' = rendered \o b.rendered
              /\ problems' = problems \o b.msgs
              /\ calls' = calls \o b.calls
    /\ n' = n + 1
    /\ UNCHANGED <<pc, searchErr, found, issues, si, ret, ceiling, random, useTemplate>>
    /\ UNCHANGED queryVars

\* break at the ceiling, then the return after the loop
StopAtCeiling ==
    /\ pc = "loop"
    /\ n < Len(issues)
    /\ AtCeiling(ceiling, n)
    /\ ret' = Aggregate(problems)
    /\ pc' = "done"
    /\ UNCHANGED <<searchErr, found, issues, si, n, problems, visited, rendered, calls,
                   ceiling, random, useTemplate>>
    /\ UNCHANGED queryVars

\* the range is exhausted, then the return after the loop
LoopEnds ==
    /\ pc = "loop"
    /\ n = Len(issues)
    /\ ret' = Aggregate(problems)
    /\ pc' = "done"
    /\ UNCHANGED <<searchErr, found, issues, si, n, problems, visited, rendered, calls,
                   ceiling, random, useTemplate>>
    /\ UNCHANGED queryVars

\* ------------------------------------------------------------------------
\* makeQuery
\* ------------------------------------------------------------------------
ArchivedTrue == <<"a", "r", "c", "h", "i", "v", "e", "d", ":", "t", "r", "u", "e">>
ArchivedFalse == <<"a", "r", "c", "h", "i", "v", "e", "d", ":", "f", "a", "l", "s", "e">>
IsClosed == <<"i", "s", ":", "c", "l", "o", "s", "e", "d">>
IsOpen == <<"i", "s", ":", "o", "p", "e", "n">>
IsLocked == <<"i", "s", ":", "l", "o", "c", "k", "e", "d">>
IsUnlocked == <<"i", "s", ":", "u", "n", "l", "o", "c", "k", "e", "d">>
UpdatedLE == <<"u", "p", "d", "a", "t", "e", "d", ":", "<", "=">>

NoErr == "nil"

RECURSIVE ToDigits(_)
\* decimal rendering of k >= 0
ToDigits(k) ==
    IF k < 10 THEN <<Digits[k + 1]>>
    ELSE ToDigits(k \div 10) \o <<Digits[(k % 10) + 1]>>

\* latest.Format(time.RFC3339): second precision, the sub-second part is
\* dropped; the calendar fields are rendered as the count of seconds.
Format(t) == <<"T">> \o ToDigits(t \div TicksPerSecond) \o <<"Z">>

\* time.Now().Add(-minUpdated)
LatestAfter(t, mu) == t + mu

Latest(t, mu) == t - mu

\* One of the three if / else-if blocks of makeQuery: the error it returns,
\* or the parts it appends.
ToggleIgnoresInclude(q, include, positive, negative, requires, conflicts) ==
    IF Contains(q, positive) THEN [err |-> requires, parts |-> <<>>]
    ELSE [err |-> NoErr, parts |-> <<negative>>]

ToggleNoConflict(q, include, positive, negative, requires, conflicts) ==
    IF ~include
    THEN IF Contains(q, positive) THEN [err |-> requires, parts |-> <<>>]
         ELSE [err |-> NoErr, parts |-> <<negative>>]
    ELSE [err |-> NoErr, parts |-> <<>>]

ToggleNoRequires(q, include, positive, negative, requires, conflicts) ==
    IF ~include
    THEN [err |-> NoErr, parts |-> <<negative>>]
    ELSE IF Contains(q, negative) THEN [err |-> conflicts, parts |-> <<>>]
    ELSE [err |-> NoErr, parts |-> <<>>]

Toggle(q, include, positive, negative, requires, conflicts) ==
    IF ~include
    THEN IF Contains(q, positive) THEN [err |-> requires, parts |-> <<>>]
         ELSE [err |-> NoErr, parts |-> <<negative>>]
    ELSE IF Contains(q, negative) THEN [err |-> conflicts, parts |-> <<>>]
    ELSE [err |-> NoErr, parts |-> <<>>]

makeQuery(raw, ia, ic, il, mu, t) ==
    LET q == ReplaceNewlines(raw)
        a == Toggle(q, ia, ArchivedTrue, ArchivedFalse,
                    "archived:true requires --include-archived",
                    "archived:false conflicts with --include-archived")
        c == Toggle(q, ic, IsClosed, IsOpen,
                    "is:closed requires --include-closed",
                    "is:open conflicts with --include-closed")
        l == Toggle(q, il, IsLocked, IsUnlocked,
                    "is:locked requires --include-locked",
                    "is:unlocked conflicts with --include-locked")
        u == IF mu # 0 THEN <<UpdatedLE \o Format(Latest(t, mu))>> ELSE <<>>
    IN  IF a.err # NoErr THEN [q |-> <<>>, err |-> a.err]
        ELSE IF c.err # NoErr THEN [q |-> <<>>, err |-> c.err]
        ELSE IF l.err # NoErr THEN [q |-> <<>>, err |-> l.err]
        ELSE [q |-> Join(<<q>> \o a.parts \o c.parts \o l.parts \o u),
              err |-> NoErr]

\* Inputs of makeQuery
Pieces ==
    {ArchivedTrue, ArchivedFalse, IsClosed, IsOpen, IsLocked, IsUnlocked,
     UpdatedLE \o <<"1">>, <<" ">>, <<"\n">>, <<"x">>}

RawQueries ==
    {Concat(ps) : ps \in UNION {[1..m -> Pieces] : m \in 0..MaxPieces}}

Durations == (-1)..MaxUpdated

Clock == MaxUpdated..(MaxUpdated + MaxNow)

NoResult == [q |-> <<>>, err |-> "pending"]

\* query, err := makeQuery(o.query, o.includeArchived, ...)
CallMakeQuery ==
    /\ qpc = "call"
    /\ qres' = makeQuery(query, includeArchived, includeClosed, includeLocked,
                         minUpdated, now)
    /\ qpc' = "ret"
    /\ UNCHANGED <<query, includeArchived, includeClosed, includeLocked,
                   minUpdated, now>>
    /\ UNCHANGED runVars

QueryIdle ==
    /\ qpc = "idle"
    /\ query = <<>>
    /\ includeArchived = FALSE
    /\ includeClosed = FALSE
    /\ includeLocked = FALSE
    /\ minUpdated = 0
    /\ now = 0
    /\ qres = NoResult

Init ==
    /\ pc = "search"
    /\ searchErr = FALSE
    /\ found = <<>>
    /\ issues = <<>>
    /\ si = 0
    /\ n = 0
    /\ problems = <<>>
    /\ visited = <<>>
    /\ rendered = <<>>
    /\ calls = <<>>
    /\ ret = NoReturn
    /\ ceiling \in Ceilings
    /\ random \in BOOLEAN
    /\ useTemplate \in BOOLEAN
    /\ QueryIdle

Next ==
    \/ SearchFails
    \/ SearchSucceeds
    \/ ShuffleStep
    \/ ShuffleDone
    \/ Visit
    \/ StopAtCeiling
    \/ LoopEnds

Spec == Init /\ [][Next]_vars

RunIdle ==
    /\ pc = "idle"
    /\ searchErr = FALSE
    /\ found = <<>>
    /\ issues = <<>>
    /\ si = 0
    /\ n = 0
    /\ problems = <<>>
    /\ visited = <<>>
    /\ rendered = <<>>
    /\ calls = <<>>
    /\ ret = NoReturn
    /\ ceiling = 0
    /\ random = FALSE
    /\ useTemplate = FALSE

InitQuery ==
    /\ qpc = "call"
    /\ query \in RawQueries
    /\ includeArchived \in BOOLEAN
    /\ includeClosed \in BOOLEAN
    /\ includeLocked \in BOOLEAN
    /\ minUpdated \in Durations
    /\ now \in Clock
    /\ qres = NoResult
    /\ RunIdle

NextQuery == CallMakeQuery

SpecQuery == InitQuery /\ [][NextQuery]_vars

\* ------------------------------------------------------------------------
\* Properties of run (checked under Spec)
\* ------------------------------------------------------------------------
ParseFails(id) == parseHTMLURL(found[id].HTMLURL).err

Count(seq, id) == Cardinality({k \in 1..Len(seq) : seq[k].item = id})

Expected(k) == ceiling = 0 \/ k - 1 < ceiling

\* C1: with a ceiling N > 0 and a result of M > N items, at most N items are
\* visited and CreateComment is called at most N times at any moment; when
\* run has returned, exactly the first N items of the (shuffled) list were
\* visited, and every recorded failure is a parse, comment or apply failure
\* of a visited item: the stop at the ceiling records none.
C1_CeilingBoundsBatch ==
    (~searchErr /\ ceiling > 0 /\ Len(found) > ceiling) =>
        /\ Len(visited) <= ceiling
        /\ Len(calls) <= ceiling
        /\ pc = "done" =>
              /\ Len(visited) = ceiling
              /\ \A k \in 1..ceiling : visited[k] = issues[k].id
              /\ \A k \in 1..Len(problems) :
                    /\ problems[k].kind \in {"parse", "comment", "apply"}
                    /\ \E v \in 1..Len(visited) : visited[v] = problems[k].item
              /\ (\A k \in 1..Len(rendered) : ~rendered[k].err)
                   /\ (\A k \in 1..Len(calls) : ~calls[k].err)
                   /\ (\A k \in 1..Len(visited) : ~ParseFails(visited[k]))
                 => ret.kind = "nil"

C1_Witness ==
    /\ pc = "done"
    /\ ceiling = 2
    /\ Len(found) = 3
    /\ Len(visited) = 2
    /\ Len(calls) = 2
    /\ Len(problems) = 1

\* C2: every visited item whose HTMLURL fails parseHTMLURL has exactly one
\* recorded failure message, the commenter and CreateComment are not invoked
\* for it, and the items after it are still processed.
C2_ParseFailureSkipsItem ==
    \A k \in 1..Len(visited) :
        ParseFails(visited[k]) =>
            /\ Count(problems, visited[k]) = 1
            /\ Count(rendered, visited[k]) = 0
            /\ Count(calls, visited[k]) = 0
            /\ pc = "done" =>
                  \A j \in (k + 1)..Len(issues) :
                      Expected(j) => j <= Len(visited)

\* C3: when FindIssuesWithOrg fails, run has returned the search error and
\* nothing was visited, rendered, submitted or recorded.
C3_SearchFailureIsFatal ==
    searchErr =>
        /\ pc = "done"
        /\ ret.kind = "search"
        /\ visited = <<>>
        /\ rendered = <<>>
        /\ calls = <<>>
        /\ problems = <<>>

C3_Witness ==
    searchErr /\ pc = "done" /\ ret.kind = "search"

\* C4: the items visited are always the first items of the list, in list
\* order and each once; when run has returned after a successful search,
\* every item at an index below the ceiling (every item when the ceiling is
\* 0) was visited, whatever failed before it; and an item whose commenter
\* failed has no CreateComment call.
C4_FailuresDoNotAbort ==
    ~searchErr =>
        /\ Len(visited) <= Len(issues)
        /\ \A k \in 1..Len(visited) : visited[k] = issues[k].id
        /\ \A k \in 1..Len(visited) : \A j \in 1..Len(visited) :
              visited[k] = visited[j] => k = j
        /\ pc = "done" =>
              \A k \in 1..Len(issues) : Expected(k) => k <= Len(visited)
        /\ \A k \in 1..Len(rendered) :
              rendered[k].err => Count(calls, rendered[k].item) = 0

C4_Witness ==
    /\ pc = "done"
    /\ ceiling = 0
    /\ Len(issues) = 3
    /\ Len(visited) = 3
    /\ Len(problems) = 2
    /\ problems[1].item = visited[1]
    /\ problems[2].item = visited[2]
    /\ problems[2].kind = "comment"
    /\ Count(calls, visited[3]) = 1

\* C5: when the search succeeded and run has returned, it returned an error
\* exactly when a failure message was recorded, the error's count is the
\* number of messages, and it returned nil when every visited item was
\* parsed, rendered and submitted without failure.
C5_ErrorIffFailures ==
    (pc = "done" /\ ~searchErr) =>
        /\ ret.kind \in {"nil", "failures"}
        /\ ret.kind = "failures" <=> Len(problems) > 0
        /\ ret.kind = "failures" => ret.count = Len(problems)
        /\ (/\ \A k \in 1..Len(visited) : ~ParseFails(visited[k])
            /\ \A k \in 1..Len(rendered) : ~rendered[k].err
            /\ \A k \in 1..Len(calls) : ~calls[k].err)
           => ret.kind = "nil"

C5_Witness ==
    /\ pc = "done"
    /\ ~searchErr
    /\ ret.kind = "failures"
    /\ ret.count = 1
    /\ Len(visited) = 2

\* C9: with random set, the list iterated is a permutation of the search
\* result, and the visited items are its first items, each once, at most
\* ceiling of them when the ceiling is positive.
C9_ShuffledPrefix ==
    (random /\ ~searchErr) =>
        /\ Len(issues) = Len(found)
        /\ \A k \in 1..Len(found) :
              Cardinality({j \in 1..Len(issues) : issues[j] = found[k]}) = 1
        /\ Len(visited) <= Len(issues)
        /\ \A k \in 1..Len(visited) : visited[k] = issues[k].id
        /\ ceiling > 0 => Len(visited) <= ceiling

C9_Witness ==
    /\ random
    /\ pc = "done"
    /\ ceiling = 2
    /\ Len(found) = 3
    /\ issues[1] = found[3]
    /\ issues[2] = found[1]
    /\ visited = <<3, 1>>

\* ------------------------------------------------------------------------
\* Properties of makeQuery (checked under SpecQuery)
\* ------------------------------------------------------------------------
Returned == qpc = "ret"

Succeeded == qpc = "ret" /\ qres.err = NoErr

\* what makeQuery put after the (normalised) raw query
Appended == SubSeq(qres.q, Len(query) + 1, Len(qres.q))

ArchivedConflict ==
    IF includeArchived THEN Contains(query, ArchivedFalse)
    ELSE Contains(query, ArchivedTrue)

ClosedConflict ==
    IF includeClosed THEN Contains(query, IsOpen)
    ELSE Contains(query, IsClosed)

LockedConflict ==
    IF includeLocked THEN Contains(query, IsUnlocked)
    ELSE Contains(query, IsLocked)

ExpectedErr ==
    IF ArchivedConflict
    THEN IF includeArchived
         THEN "archived:false conflicts with --include-archived"
         ELSE "archived:true requires --include-archived"
    ELSE IF ClosedConflict
    THEN IF includeClosed
         THEN "is:open conflicts with --include-closed"
         ELSE "is:closed requires --include-closed"
    ELSE IF LockedConflict
    THEN IF includeLocked
         THEN "is:unlocked conflicts with --include-locked"
         ELSE "is:locked requires --include-locked"
    ELSE NoErr

\* C6: makeQuery fails exactly when a toggle conflicts with the raw query
\* (OFF with the positive qualifier, ON with the opposing one); the error is
\* that of the first conflicting toggle in the order archived, closed, locked
\* and no query is returned with it; on success the query returned is the
\* normalised raw query followed by the restrictive qualifier of each toggle
\* that is OFF, and by none of a toggle that is ON.
C6_ToggleConflicts ==
    Returned =>
        /\ qres.err = ExpectedErr
        /\ qres.err # NoErr => qres.q = <<>>
        /\ qres.err = NoErr =>
              /\ SubSeq(qres.q, 1, Len(query)) = ReplaceNewlines(query)
              /\ Contains(Appended, <<" ">> \o ArchivedFalse) <=> ~includeArchived
              /\ Contains(Appended, <<" ">> \o IsOpen) <=> ~includeClosed
              /\ Contains(Appended, <<" ">> \o IsUnlocked) <=> ~includeLocked

C6_Witness ==
    /\ Returned
    /\ ~includeArchived /\ Contains(query, ArchivedTrue)
    /\ includeClosed /\ Contains(query, IsOpen)
    /\ qres.err = "archived:true requires --include-archived"

\* C7 as claimed: for every raw query containing archived:true, makeQuery
\* with includeArchived set succeeds and does not append archived:false.
C7_ArchivedTrueAlwaysSucceeds ==
    (Returned /\ includeArchived /\ Contains(query, ArchivedTrue)) =>
        /\ qres.err = NoErr
        /\ ~Contains(Appended, ArchivedFalse)

\* C7 as amended: for every raw query containing archived:true, makeQuery
\* with includeArchived set never fails with the archived:true error, succeeds
\* exactly when the query does not also contain archived:false and neither
\* the closed nor the locked toggle conflicts, and then does not append
\* archived:false.
C7_ArchivedTrueAccepted ==
    (Returned /\ includeArchived /\ Contains(query, ArchivedTrue)) =>
        /\ qres.err # "archived:true requires --include-archived"
        /\ qres.err = NoErr <=>
              /\ ~Contains(query, ArchivedFalse)
              /\ ~ClosedConflict
              /\ ~LockedConflict
        /\ qres.err = NoErr => ~Contains(Appended, ArchivedFalse)

C7_Witness ==
    /\ Succeeded
    /\ includeArchived
    /\ Contains(query, ArchivedTrue)
    /\ ~includeClosed
    /\ Contains(qres.q, ArchivedTrue)
    /\ ~Contains(qres.q, ArchivedFalse)

ExactlyOne(a, b) == (a /\ ~b) \/ (b /\ ~a)

PairRule(include, positive, negative) ==
    /\ ~(Contains(qres.q, positive) /\ Contains(qres.q, negative))
    /\ ~include => Contains(qres.q, negative)
    /\ include => (Contains(qres.q, positive) <=> Contains(query, positive))

Stamp == UpdatedLE \o Format(now - minUpdated)

\* C10 as claimed: a query built with success contains no updated:<= when
\* minUpdated is zero, and exactly one, with the time now - minUpdated, when
\* it is not.
C10_ExactlyOneUpdated ==
    Succeeded =>
        /\ minUpdated = 0 => ~Contains(qres.q, UpdatedLE)
        /\ minUpdated # 0 =>
              /\ Occurrences(qres.q, UpdatedLE) = 1
              /\ Contains(qres.q, Stamp)

\* C10 as amended: a successful makeQuery appends no updated:<= qualifier
\* when minUpdated is zero, so the built query has as many as the raw query;
\* when minUpdated is not zero it appends exactly one, as the last term,
\* whose timestamp is now - minUpdated at second precision, so the built
\* query has one more than the raw query.
C10_AppendsOneUpdated ==
    Succeeded =>
        /\ minUpdated = 0 =>
              /\ ~Contains(Appended, UpdatedLE)
              /\ Occurrences(qres.q, UpdatedLE) = Occurrences(query, UpdatedLE)
        /\ minUpdated # 0 =>
              /\ Occurrences(Appended, UpdatedLE) = 1
              /\ Occurrences(qres.q, UpdatedLE) = Occurrences(query, UpdatedLE) + 1
              /\ SubSeq(qres.q, Len(qres.q) - Len(Stamp), Len(qres.q))
                    = <<" ">> \o Stamp

C10_Witness ==
    /\ Succeeded
    /\ minUpdated = 1
    /\ now = MaxUpdated + 1
    /\ Contains(query, UpdatedLE)
    /\ Occurrences(qres.q, UpdatedLE) = 2

====
